---------------------------- MODULE Spec2Model ----------------------------
(***************************************************************************)
(* Receptive-field anchor generation and target building of the LFFD       *)
(* detection head (models/lffd/detection.py) and the WIDER FACE annotation *)
(* parser (datasets/widerface.py).                                         *)
(*                                                                         *)
(* Pixel coordinates are kept as integers counted in eighths of a pixel,   *)
(* so that the half-pixel cell centers, the half receptive field and the   *)
(* midpoint of a clipped anchor are all exact.  A regression target is the *)
(* exact fraction <<numerator, denominator>> the division produces; a zero *)
(* denominator is the non-finite value a float division by zero gives.     *)
(* A tensor over the feature map is a function on Cells(fh, fw), a batch   *)
(* tensor is a sequence of those, image i of the code at position i + 1.   *)
(***************************************************************************)
EXTENDS Integers, Sequences, FiniteSets, TLC

\* ------------------------------------------------------------------ bounds
MaxRfSize == 2
MaxRfStride == 1
MaxScale == 2
MaxFmapH == 1
MaxFmapW == 2
MaxBatch == 2
MaxBoxes == 1
MaxLines == 4
MaxCount == 2
MaxRecords == 2

VARIABLES
    rf_size, rf_stride, lower_scale, upper_scale,  \* DetectionHead fields
    pc,             \* "idle" | "loop" | "done" | "error"
    call,           \* the call in progress or last made, with its arguments
    ret,            \* what gen_rf_anchors returned
    rf_anchors, rf_centers,                       \* build_targets locals
    t_cls, t_regs, t_objness_mask, t_reg_mask, ignore,
    i,              \* loop index of build_targets
    matcher_calls,  \* the Matcher's invocations in order: the image and the
                    \* two assignment grids it returned
    lines, idx, ids, targets, ppc,                \* parse_annotation_file
    listing         \* the records the annotation file was written from

headVars == <<rf_size, rf_stride, lower_scale, upper_scale, pc, call, ret,
              rf_anchors, rf_centers, t_cls, t_regs, t_objness_mask,
              t_reg_mask, ignore, i, matcher_calls>>
parseVars == <<lines, idx, ids, targets, ppc, listing>>
vars == <<headVars, parseVars>>

\* ---------------------------------------------------------------- helpers
\* pixels -> eighths of a pixel
Px(v) == 8 * v

Min2(a, b) == IF a < b THEN a ELSE b
Max2(a, b) == IF a > b THEN a ELSE b

\* torch.clamp(v, lo, hi): min(max(v, lo), hi); hi wins when lo > hi
clamp(v, lo, hi) == Min2(Max2(v, lo), hi)

\* the index set of a tensor of shape (fmaph, fmapw): <<row, col>>, 0-based
Cells(fmaph, fmapw) == (0 .. (fmaph - 1)) \X (0 .. (fmapw - 1))

\* ------------------------------------------------------ gen_rf_anchors
\* (faulty variant of meshgrid: the two outputs bound the other way round)
meshgrid_transposed(fmaph, fmapw) ==
    [y |-> [c \in Cells(fmaph, fmapw) |-> c[2]],
     x |-> [c \in Cells(fmaph, fmapw) |-> c[1]]]

\* torch.meshgrid(arange(fmaph), arange(fmapw)): y[row, col] = row,
\* x[row, col] = col
meshgrid(fmaph, fmapw) ==
    [y |-> [c \in Cells(fmaph, fmapw) |-> c[1]],
     x |-> [c \in Cells(fmaph, fmapw) |-> c[2]]]

\* rfs = (stack([x, y]) + 0.5) * rf_stride, repeated to 4 channels, then
\* -rf_size/2 on channels 0,1 and +rf_size/2 on channels 2,3 (in eighths)
rf_boxes(size, stride, fmaph, fmapw) ==
    LET g == meshgrid(fmaph, fmapw)
        half == 4 * size
    IN  [c \in Cells(fmaph, fmapw) |->
            LET cx == (2 * g.x[c] + 1) * 4 * stride
                cy == (2 * g.y[c] + 1) * 4 * stride
            IN  <<cx - half, cy - half, cx + half, cy + half>>]

\* (faulty variant of clip_rfs: the x channels bounded by the height, the y channels
\* by the width)
clip_rfs_swapped_bounds(rfs, stride, fmaph, fmapw) ==
    [c \in DOMAIN rfs |->
        <<clamp(rfs[c][1], 0, Px(fmaph * stride)),
          clamp(rfs[c][2], 0, Px(fmapw * stride)),
          clamp(rfs[c][3], 0, Px(fmaph * stride)),
          clamp(rfs[c][4], 0, Px(fmapw * stride))>>]

\* the clip branch: x channels clamped to [0, fmapw*rf_stride], y channels
\* to [0, fmaph*rf_stride]
clip_rfs(rfs, stride, fmaph, fmapw) ==
    [c \in DOMAIN rfs |->
        <<clamp(rfs[c][1], 0, Px(fmapw * stride)),
          clamp(rfs[c][2], 0, Px(fmaph * stride)),
          clamp(rfs[c][3], 0, Px(fmapw * stride)),
          clamp(rfs[c][4], 0, Px(fmaph * stride))>>]

gen_rf_anchors(size, stride, fmaph, fmapw, clip) ==
    LET rfs == rf_boxes(size, stride, fmaph, fmapw)
    IN  IF clip THEN clip_rfs(rfs, stride, fmaph, fmapw) ELSE rfs

\* torch.arange(n) raises for n < 0; torch.zeros raises for a negative dim
shape_raises(fmaph, fmapw) == fmaph < 0 \/ fmapw < 0


\* ------------------------------------------------------- build_targets
\* torch.zeros(batch_size, fh, fw): every cell of every image holds v
zeros(bs, fmaph, fmapw, v) ==
    [k \in 1 .. bs |-> [c \in Cells(fmaph, fmapw) |-> v]]

\* one regs row of torch.zeros: four exact zeros
Zero4 == <<<<0, 1>>, <<0, 1>>, <<0, 1>>, <<0, 1>>>>

\* rf_centers is a view of channels 0,1 of rf_anchors (clip=True); it is
\* overwritten with the midpoint of the clipped box, x first, then y
centers_of(anchors) ==
    [c \in DOMAIN anchors |->
        <<(anchors[c][3] + anchors[c][1]) \div 2,
          (anchors[c][4] + anchors[c][2]) \div 2>>]

\* rf_anchors after the two writes through the view
anchors_after_view_write(anchors) ==
    [c \in DOMAIN anchors |->
        <<centers_of(anchors)[c][1], centers_of(anchors)[c][2],
          anchors[c][3], anchors[c][4]>>]

\* gt_boxes[i][reg_mask[reg_mask>=0], :] written at the cells reg_mask >= 0
copy_boxes(regs_i, reg_mask, boxes) ==
    [c \in DOMAIN regs_i |->
        IF reg_mask[c] >= 0
        THEN [j \in 1 .. 4 |-> <<boxes[reg_mask[c] + 1][j], 1>>]
        ELSE regs_i[c]]

\* (faulty variant of normalize1: the center is not subtracted)
normalize1_no_center(t, center, size) == <<t[1], t[2] * 4 * size>>

\* (t - center) / (rf_size * .5) for one channel: t = n/d in eighths, the
\* center in eighths, rf_size*.5 pixels = 4*rf_size eighths
normalize1(t, center, size) == <<t[1] - center * t[2], t[2] * 4 * size>>

\* t_regs[i] = ((t_regs[i].view(-1,4) - rf_centers.view(-1,2).repeat(1,2))
\*              / (rf_size*.5)).view(fh,fw,4): every cell of image i
normalize(regs_i, centers, size) ==
    [c \in DOMAIN regs_i |->
        <<normalize1(regs_i[c][1], centers[c][1], size),
          normalize1(regs_i[c][2], centers[c][2], size),
          normalize1(regs_i[c][3], centers[c][1], size),
          normalize1(regs_i[c][4], centers[c][2], size)>>]

\* t[i, mask] = v
masked_fill(t_i, mask, v) ==
    [c \in DOMAIN t_i |-> IF mask[c] THEN v ELSE t_i[c]]

\* the boolean index  mask >= 0
nonneg_cells(mask) == [c \in DOMAIN mask |-> mask[c] >= 0]

\* (faulty variant of ignore_cells: every cell that is not background)
ignore_cells_not_background(cls_mask) ==
    [c \in DOMAIN cls_mask |-> cls_mask[c] # -1]

\* the boolean index  cls_mask == -2
ignore_cells(cls_mask) == [c \in DOMAIN cls_mask |-> cls_mask[c] = -2]

\* ----------------------------------------------------------- the Matcher
\* values an assignment grid may hold for an image of n boxes
Assign(n) == {-2, -1} \cup (0 .. (n - 1))

\* any pair of assignment grids (cls_mask, reg_mask) over the cells
AnyMatcher(cells, n) == [cells -> Assign(n)] \X [cells -> Assign(n)]

\* LFFDMatcher(lower_scale, upper_scale) as section 4.2 of the
\* specification states it (utils/matcher.py is not among the sources)
Inside(c, b) == b[1] < c[1] /\ c[1] < b[3] /\ b[2] < c[2] /\ c[2] < b[4]
BoxSize(b) == Max2(b[3] - b[1], b[4] - b[2])
Area(b) == (b[3] - b[1]) * (b[4] - b[2])
Eligible(b, lo, hi) == Px(lo) <= BoxSize(b) /\ BoxSize(b) <= Px(hi)

LFFDMatcher(centers, boxes, lo, hi) ==
    LET cand(c) == {k \in 1 .. Len(boxes) :
                        Inside(centers[c], boxes[k]) /\ Eligible(boxes[k], lo, hi)}
        best(c) == CHOOSE k \in cand(c) : \A j \in cand(c) :
                        \/ Area(boxes[k]) < Area(boxes[j])
                        \/ Area(boxes[k]) = Area(boxes[j]) /\ k <= j
        zone(c) == \E k \in 1 .. Len(boxes) :
                        Inside(centers[c], boxes[k]) /\ ~Eligible(boxes[k], lo, hi)
        cls == [c \in DOMAIN centers |->
                    IF cand(c) # {} THEN best(c) - 1
                    ELSE IF zone(c) THEN -2 ELSE -1]
        reg == [c \in DOMAIN centers |-> IF cls[c] >= 0 THEN cls[c] ELSE -1]
    IN  <<cls, reg>>

\* ------------------------------------------------------------- inputs
RfSizes == 0 .. MaxRfSize
RfStrides == 0 .. MaxRfStride
ScaleRanges == {r \in (1 .. MaxScale) \X (1 .. MaxScale) : r[1] <= r[2]}
FmapHs == (-1) .. MaxFmapH
FmapWs == (-1) .. MaxFmapW

\* ground-truth boxes (xmin, ymin, xmax, ymax) in eighths of a pixel: one of
\* size 1, one of size 2, one degenerate
GtBoxSet == {<<0, 0, 5, 8>>, <<0, 0, 16, 8>>, <<8, 8, 8, 8>>}
BoxLists == UNION {[1 .. n -> GtBoxSet] : n \in 0 .. MaxBoxes}
GtBatches == UNION {[1 .. n -> BoxLists] : n \in 0 .. MaxBatch}

NoTensor == <<>>

\* ------------------------------------------------------------- actions
ParseIdle ==
    /\ lines = <<>> /\ idx = 0 /\ ids = <<>> /\ targets = <<>> /\ ppc = "idle"
    /\ listing = [written |-> FALSE, records |-> <<>>]

InitHead ==
    /\ rf_size \in RfSizes
    /\ rf_stride \in RfStrides
    /\ \E r \in ScaleRanges : lower_scale = r[1] /\ upper_scale = r[2]
    /\ pc = "idle"
    /\ call = [op |-> "none"]
    /\ ret = [ok |-> FALSE, raised |-> FALSE, value |-> NoTensor]
    /\ rf_anchors = NoTensor /\ rf_centers = NoTensor
    /\ t_cls = NoTensor /\ t_regs = NoTensor /\ t_objness_mask = NoTensor
    /\ t_reg_mask = NoTensor /\ ignore = NoTensor
    /\ i = 0
    /\ matcher_calls = <<>>

Init == InitHead /\ ParseIdle

\* head.gen_rf_anchors(fmaph, fmapw, clip=clip)
CallGenRfAnchors ==
    /\ pc = "idle"
    /\ \E fmaph \in FmapHs, fmapw \in FmapWs, clip \in BOOLEAN :
        /\ call' = [op |-> "gen_rf_anchors", fmaph |-> fmaph, fmapw |-> fmapw,
                    clip |-> clip]
        /\ ret' = IF shape_raises(fmaph, fmapw)
                  THEN [ok |-> FALSE, raised |-> TRUE, value |-> NoTensor]
                  ELSE [ok |-> TRUE, raised |-> FALSE,
                        value |-> gen_rf_anchors(rf_size, rf_stride, fmaph, fmapw, clip)]
    /\ UNCHANGED <<rf_size, rf_stride, lower_scale, upper_scale, pc, rf_anchors,
                   rf_centers, t_cls, t_regs, t_objness_mask, t_reg_mask, ignore,
                   i, matcher_calls, parseVars>>

\* head.build_targets(fmap, gt_boxes) up to the loop: the five zero tensors,
\* the clipped anchors and the centers
CallBuildTargets ==
    /\ pc = "idle"
    /\ \E fmaph \in FmapHs, fmapw \in FmapWs, gt \in GtBatches :
        /\ call' = [op |-> "build_targets", fmaph |-> fmaph, fmapw |-> fmapw,
                    gt_boxes |-> gt]
        /\ ret' = [ok |-> FALSE, raised |-> FALSE, value |-> NoTensor]
        /\ IF shape_raises(fmaph, fmapw)
           THEN /\ pc' = "error"
                /\ UNCHANGED <<rf_anchors, rf_centers, t_cls, t_regs,
                               t_objness_mask, t_reg_mask, ignore>>
           ELSE LET a == gen_rf_anchors(rf_size, rf_stride, fmaph, fmapw, TRUE)
                    bs == Len(gt)
                IN  /\ pc' = "loop"
                    /\ t_cls' = zeros(bs, fmaph, fmapw, 0)
                    /\ t_regs' = zeros(bs, fmaph, fmapw, Zero4)
                    /\ t_objness_mask' = zeros(bs, fmaph, fmapw, FALSE)
                    /\ t_reg_mask' = zeros(bs, fmaph, fmapw, FALSE)
                    /\ ignore' = zeros(bs, fmaph, fmapw, FALSE)
                    /\ rf_centers' = centers_of(a)
                    /\ rf_anchors' = anchors_after_view_write(a)
    /\ i' = 0
    /\ matcher_calls' = <<>>
    /\ UNCHANGED <<rf_size, rf_stride, lower_scale, upper_scale, parseVars>>

\* (faulty variant of SkipEmptyImage: break instead of continue)
SkipEmptyImage_break ==
    /\ pc = "loop"
    /\ i < Len(call.gt_boxes)
    /\ Len(call.gt_boxes[i + 1]) = 0
    /\ i' = Len(call.gt_boxes)
    /\ UNCHANGED <<rf_size, rf_stride, lower_scale, upper_scale, pc, call, ret,
                   rf_anchors, rf_centers, t_cls, t_regs, t_objness_mask,
                   t_reg_mask, ignore, matcher_calls, parseVars>>

\* if gt_boxes[i].shape[0] == 0: continue
SkipEmptyImage ==
    /\ pc = "loop"
    /\ i < Len(call.gt_boxes)
    /\ Len(call.gt_boxes[i + 1]) = 0
    /\ i' = i + 1
    /\ UNCHANGED <<rf_size, rf_stride, lower_scale, upper_scale, pc, call, ret,
                   rf_anchors, rf_centers, t_cls, t_regs, t_objness_mask,
                   t_reg_mask, ignore, matcher_calls, parseVars>>

\* the loop body for image i once the Matcher has returned (cls_mask, reg_mask)
WriteImage(cls_mask, reg_mask) ==
    LET k == i + 1
        pos == nonneg_cells(cls_mask)
        regpos == nonneg_cells(reg_mask)
        ign == ignore_cells(cls_mask)
    IN  /\ t_cls' = [t_cls EXCEPT ![k] = masked_fill(@, pos, 1)]
        /\ t_objness_mask' = [t_objness_mask EXCEPT ![k] = masked_fill(@, pos, TRUE)]
        /\ t_reg_mask' = [t_reg_mask EXCEPT ![k] = masked_fill(@, regpos, TRUE)]
        /\ ignore' = [ignore EXCEPT ![k] = masked_fill(@, ign, TRUE)]
        /\ t_regs' = [t_regs EXCEPT ![k] =
                        normalize(copy_boxes(@, reg_mask, call.gt_boxes[k]),
                                  rf_centers, rf_size)]
        /\ matcher_calls' = Append(matcher_calls,
                [image |-> i, cls_mask |-> cls_mask, reg_mask |-> reg_mask])
        /\ i' = i + 1
        /\ UNCHANGED <<rf_size, rf_stride, lower_scale, upper_scale, pc, call, ret,
                       rf_anchors, rf_centers, parseVars>>

\* an image with boxes, the Matcher returning any pair of assignment grids
MatchImage ==
    /\ pc = "loop"
    /\ i < Len(call.gt_boxes)
    /\ Len(call.gt_boxes[i + 1]) > 0
    /\ \E m \in AnyMatcher(DOMAIN rf_centers, Len(call.gt_boxes[i + 1])) :
            WriteImage(m[1], m[2])

\* an image with boxes, the Matcher being the LFFDMatcher of section 4.2
MatchImageLFFD ==
    /\ pc = "loop"
    /\ i < Len(call.gt_boxes)
    /\ Len(call.gt_boxes[i + 1]) > 0
    /\ LET m == LFFDMatcher(rf_centers, call.gt_boxes[i + 1], lower_scale, upper_scale)
       IN  WriteImage(m[1], m[2])

\* return t_cls,t_regs,t_objness_mask,t_reg_mask,ignore
ReturnTargets ==
    /\ pc = "loop"
    /\ i >= Len(call.gt_boxes)
    /\ pc' = "done"
    /\ UNCHANGED <<rf_size, rf_stride, lower_scale, upper_scale, call, ret,
                   rf_anchors, rf_centers, t_cls, t_regs, t_objness_mask,
                   t_reg_mask, ignore, i, matcher_calls, parseVars>>

Next ==
    \/ CallGenRfAnchors
    \/ CallBuildTargets
    \/ SkipEmptyImage
    \/ MatchImage
    \/ ReturnTargets

Spec == Init /\ [][Next]_vars

NextLFFD ==
    \/ CallGenRfAnchors
    \/ CallBuildTargets
    \/ SkipEmptyImage
    \/ MatchImageLFFD
    \/ ReturnTargets

SpecLFFD == Init /\ [][NextLFFD]_vars

\* the anchor generator alone
NextAnchors == CallGenRfAnchors

SpecAnchors == Init /\ [][NextAnchors]_vars


\* ------------------------------------------------- parse_annotation_file
\* A line of the annotation file: a file name, a run of integers separated
\* by blanks, or the empty string.
NameLine(f) == [kind |-> "name", name |-> f, toks |-> <<>>]
NumLine(toks) == [kind |-> "nums", name |-> "", toks |-> toks]
EmptyLine == [kind |-> "empty", name |-> "", toks |-> <<>>]

\* int(line): a value for a line holding one integer, ValueError otherwise
int_ok(line) == line.kind = "nums" /\ Len(line.toks) = 1
int_of(line) == line.toks[1]

\* parse_box(box): the first four blank-separated fields as integers
\* (ValueError on a name, an empty line or fewer than four fields), then
\* (x, y, w, h) -> (x, y, x+w, y+h)
parse_box_ok(line) == line.kind = "nums" /\ Len(line.toks) >= 4
parse_box(line) ==
    LET x == line.toks[1]
        y == line.toks[2]
        w == line.toks[3]
        h == line.toks[4]
    IN  <<x, y, x + w, y + h>>

\* Python's s[a:b] for a >= 0: a negative b counts from the end, both ends
\* are cut to the length
py_slice(s, a, b) ==
    LET n == Len(s)
        hi == IF b < 0 THEN Max2(b + n, 0) ELSE Min2(b, n)
        lo == Min2(a, n)
    IN  IF hi <= lo THEN <<>> ELSE [k \in 1 .. (hi - lo) |-> s[lo + k]]

\* the writer of a WIDER FACE listing: per record the file name, the count,
\* then the box lines (x y w h and six attributes), or one all-zero line
\* when the record has no boxes; the file ends with a newline, so
\* read().split("\n") yields a last empty line
BoxLine(b) == NumLine(b \o <<0, 0, 0, 0, 0, 0>>)
PlaceholderLine == NumLine(<<0, 0, 0, 0, 0, 0, 0, 0, 0, 0>>)
RenderRecord(r) ==
    <<NameLine(r.name), NumLine(<<Len(r.boxes)>>)>> \o
    (IF Len(r.boxes) = 0 THEN <<PlaceholderLine>>
     ELSE [k \in 1 .. Len(r.boxes) |-> BoxLine(r.boxes[k])])
RECURSIVE RenderRecords(_)
RenderRecords(rs) ==
    IF Len(rs) = 0 THEN <<>> ELSE RenderRecord(Head(rs)) \o RenderRecords(Tail(rs))
Render(rs) == RenderRecords(rs) \o <<EmptyLine>>

\* inputs
FileNames == {"a.jpg", "b.jpg"}
AnnBoxes == {<<1, 2, 3, 4>>, <<5, 6, 1, 1>>}
AnnBoxLists == UNION {[1 .. n -> AnnBoxes] : n \in 0 .. MaxCount}
Records == [name : FileNames, boxes : AnnBoxLists]
Listings == UNION {[1 .. n -> Records] : n \in 0 .. MaxRecords}
LineAlphabet ==
    {NameLine(f) : f \in FileNames}
    \cup {NumLine(<<n>>) : n \in (-1) .. MaxCount}
    \cup {BoxLine(b) : b \in AnnBoxes}
    \cup {PlaceholderLine, NumLine(<<1, 2>>), EmptyLine}
AnyLines == UNION {[1 .. n -> LineAlphabet] : n \in 0 .. MaxLines}

HeadIdle ==
    /\ rf_size = 1 /\ rf_stride = 1 /\ lower_scale = 1 /\ upper_scale = 1
    /\ pc = "idle"
    /\ call = [op |-> "none"]
    /\ ret = [ok |-> FALSE, raised |-> FALSE, value |-> NoTensor]
    /\ rf_anchors = NoTensor /\ rf_centers = NoTensor
    /\ t_cls = NoTensor /\ t_regs = NoTensor /\ t_objness_mask = NoTensor
    /\ t_reg_mask = NoTensor /\ ignore = NoTensor
    /\ i = 0
    /\ matcher_calls = <<>>

\* parse_annotation_file(lines) entered: idx = 0, ids = [], targets = []
InitParse ==
    /\ HeadIdle
    /\ \/ /\ lines \in AnyLines
          /\ listing = [written |-> FALSE, records |-> <<>>]
       \/ \E rs \in Listings :
            /\ lines = Render(rs)
            /\ listing = [written |-> TRUE, records |-> rs]
    /\ idx = 0 /\ ids = <<>> /\ targets = <<>>
    /\ ppc = "loop"

\* int(lines[idx+1]) or parse_box raises ValueError
ParseRaises ==
    /\ ppc = "loop"
    /\ idx < Len(lines) - 1
    /\ \/ ~int_ok(lines[idx + 2])
       \/ /\ int_ok(lines[idx + 2])
          /\ int_of(lines[idx + 2]) # 0
          /\ LET boxes == py_slice(lines, idx + 2, idx + 2 + int_of(lines[idx + 2]))
             IN  \E k \in 1 .. Len(boxes) : ~parse_box_ok(boxes[k])
    /\ ppc' = "error"
    /\ UNCHANGED <<lines, idx, ids, targets, listing, headVars>>

\* (faulty variant of ParseEmptyRecord: only the name and the count are passed)
ParseEmptyRecord_two_lines ==
    /\ ppc = "loop"
    /\ idx < Len(lines) - 1
    /\ int_ok(lines[idx + 2])
    /\ int_of(lines[idx + 2]) = 0
    /\ idx' = idx + 2
    /\ ids' = Append(ids, lines[idx + 1])
    /\ targets' = Append(targets, <<>>)
    /\ UNCHANGED <<lines, ppc, listing, headVars>>

\* bbox_count == 0: the name is kept with no boxes and three lines are passed
ParseEmptyRecord ==
    /\ ppc = "loop"
    /\ idx < Len(lines) - 1
    /\ int_ok(lines[idx + 2])
    /\ int_of(lines[idx + 2]) = 0
    /\ idx' = idx + 3
    /\ ids' = Append(ids, lines[idx + 1])
    /\ targets' = Append(targets, <<>>)
    /\ UNCHANGED <<lines, ppc, listing, headVars>>

\* bbox_count != 0: the next bbox_count lines are parsed as boxes
ParseRecord ==
    /\ ppc = "loop"
    /\ idx < Len(lines) - 1
    /\ int_ok(lines[idx + 2])
    /\ int_of(lines[idx + 2]) # 0
    /\ LET boxes == py_slice(lines, idx + 2, idx + 2 + int_of(lines[idx + 2]))
       IN  /\ \A k \in 1 .. Len(boxes) : parse_box_ok(boxes[k])
           /\ ids' = Append(ids, lines[idx + 1])
           /\ targets' = Append(targets, [k \in 1 .. Len(boxes) |-> parse_box(boxes[k])])
           /\ idx' = idx + Len(boxes) + 2
    /\ UNCHANGED <<lines, ppc, listing, headVars>>

\* the while condition fails: return ids,targets
ParseReturn ==
    /\ ppc = "loop"
    /\ ~(idx < Len(lines) - 1)
    /\ ppc' = "done"
    /\ UNCHANGED <<lines, idx, ids, targets, listing, headVars>>

NextParse ==
    \/ ParseRaises
    \/ ParseEmptyRecord
    \/ ParseRecord
    \/ ParseReturn

\* the loop is sequential code: a step that can be taken is taken
SpecParse == InitParse /\ [][NextParse]_vars /\ WF_vars(NextParse)


\* ================================================================ claims
\* what the statements below speak of
InBuildTargets == call.op = "build_targets" /\ pc \in {"loop", "done"}
BuildTargetsDone == call.op = "build_targets" /\ pc = "done"
GenReturned == call.op = "gen_rf_anchors" /\ ret.ok
ValidGeometry ==
    rf_size > 0 /\ rf_stride > 0 /\ call.fmaph >= 1 /\ call.fmapw >= 1

\* the unclipped anchor math for cell <<row, col>>, in eighths of a pixel:
\* ((col + 0.5) * rf_stride, (row + 0.5) * rf_stride)
AnchorCenter(c) ==
    <<Px(c[2] * rf_stride) + 4 * rf_stride, Px(c[1] * rf_stride) + 4 * rf_stride>>
UnclippedAnchor(c) ==
    <<AnchorCenter(c)[1] - 4 * rf_size, AnchorCenter(c)[2] - 4 * rf_size,
      AnchorCenter(c)[1] + 4 * rf_size, AnchorCenter(c)[2] + 4 * rf_size>>

\* a fraction <<n, d>> is the number v
IsValue(q, v) == q[2] # 0 /\ q[1] = v * q[2]

\* C1: the centers build_targets hands to the Matcher are the unclipped
\* centers ((col + 0.5) * rf_stride, (row + 0.5) * rf_stride), for every
\* valid geometry, rf_size > rf_stride included.
C1_CentersUnclipped ==
    (InBuildTargets /\ ValidGeometry /\ Len(matcher_calls) > 0)
        => \A c \in DOMAIN rf_centers : rf_centers[c] = AnchorCenter(c)

\* C2: gen_rf_anchors with clip=False returns a grid over exactly the cells
\* (row, col) of the fmaph x fmapw map, each holding the 4 coordinates
\* (cx - rf_size/2, cy - rf_size/2, cx + rf_size/2, cy + rf_size/2) with
\* cx = (col + 0.5) * rf_stride and cy = (row + 0.5) * rf_stride.
C2_UnclippedGrid ==
    (GenReturned /\ ~call.clip)
        => /\ DOMAIN ret.value = Cells(call.fmaph, call.fmapw)
           /\ \A row \in 0 .. (call.fmaph - 1), col \in 0 .. (call.fmapw - 1) :
                /\ Len(ret.value[<<row, col>>]) = 4
                /\ ret.value[<<row, col>>] = UnclippedAnchor(<<row, col>>)

C2_Witness ==
    /\ GenReturned /\ ~call.clip
    /\ call.fmaph >= 1 /\ call.fmapw >= 2
    /\ rf_size > 0 /\ rf_stride > 0
    /\ ret.value[<<0, 0>>] = <<4 * rf_stride - 4 * rf_size, 4 * rf_stride - 4 * rf_size,
                               4 * rf_stride + 4 * rf_size, 4 * rf_stride + 4 * rf_size>>
    /\ ret.value[<<0, 1>>][1] # ret.value[<<0, 0>>][1]

\* C3: in every image and every cell, ignore and t_objness_mask are never
\* both true, whatever assignment grids the Matcher returned.
C3_MutualExclusion ==
    InBuildTargets
        => \A k \in DOMAIN ignore : \A c \in DOMAIN ignore[k] :
                ~(ignore[k][c] /\ t_objness_mask[k][c])

C3_Witness ==
    /\ BuildTargetsDone
    /\ \E k \in DOMAIN ignore : \E c, d \in DOMAIN ignore[k] :
            /\ ignore[k][c] /\ ~t_objness_mask[k][c]
            /\ t_objness_mask[k][d] /\ ~ignore[k][d]

\* C4: at every matched cell (reg_mask = k >= 0 for image i) the stored
\* target rebuilds box gt_boxes[i][k] from the cell's anchor center:
\* center + regs * rf_size * 0.5 = box, channel by channel.
C4_RoundTrip ==
    (BuildTargetsDone /\ ValidGeometry)
        => \A n \in 1 .. Len(matcher_calls) :
            LET m == matcher_calls[n]
            IN  \A c \in DOMAIN m.reg_mask :
                  m.reg_mask[c] >= 0 =>
                    LET box == call.gt_boxes[m.image + 1][m.reg_mask[c] + 1]
                        regs == t_regs[m.image + 1][c]
                        ctr == <<AnchorCenter(c)[1], AnchorCenter(c)[2],
                                 AnchorCenter(c)[1], AnchorCenter(c)[2]>>
                    IN  \A j \in 1 .. 4 :
                          /\ regs[j][2] # 0
                          /\ (box[j] - ctr[j]) * regs[j][2] = regs[j][1] * 4 * rf_size

\* C5: an image with zero boxes is never handed to the Matcher and keeps the
\* defaults in every cell; every image with boxes is matched once and
\* written, wherever the empty images stand in the batch; no error is
\* raised and the loop always has a step to take.
C5_EmptyImages ==
    /\ (call.op = "build_targets" /\ ~shape_raises(call.fmaph, call.fmapw))
            => pc # "error"
    /\ (call.op = "build_targets" /\ pc = "loop") => ENABLED Next
    /\ BuildTargetsDone =>
        \A k \in 1 .. Len(call.gt_boxes) :
            LET calls == {n \in 1 .. Len(matcher_calls) : matcher_calls[n].image = k - 1}
            IN  IF Len(call.gt_boxes[k]) = 0
                THEN /\ calls = {}
                     /\ \A c \in DOMAIN t_cls[k] :
                          /\ t_cls[k][c] = 0
                          /\ t_regs[k][c] = Zero4
                          /\ ~t_objness_mask[k][c]
                          /\ ~t_reg_mask[k][c]
                          /\ ~ignore[k][c]
                ELSE /\ Cardinality(calls) = 1
                     /\ \A n \in calls : \A c \in DOMAIN t_cls[k] :
                          /\ t_objness_mask[k][c] = (matcher_calls[n].cls_mask[c] >= 0)
                          /\ t_cls[k][c] = (IF matcher_calls[n].cls_mask[c] >= 0 THEN 1 ELSE 0)
                          /\ t_reg_mask[k][c] = (matcher_calls[n].reg_mask[c] >= 0)
                          /\ ignore[k][c] = (matcher_calls[n].cls_mask[c] = -2)

C5_Witness ==
    /\ BuildTargetsDone /\ ValidGeometry
    /\ Len(call.gt_boxes) = 2
    /\ Len(call.gt_boxes[1]) = 0
    /\ Len(call.gt_boxes[2]) > 0
    /\ Len(matcher_calls) = 1
    /\ \E c \in DOMAIN t_cls[2] : t_objness_mask[2][c]

\* the malformed geometric inputs
MalformedHead == rf_size <= 0 \/ rf_stride <= 0
MalformedMap == call.fmaph < 1 \/ call.fmapw < 1
MalformedBox(b) == b[3] <= b[1] \/ b[4] <= b[2]

\* C6: a call with rf_size <= 0, rf_stride <= 0, a map height or width < 1,
\* or a box with xmax <= xmin or ymax <= ymin ends in an error and returns
\* neither an anchor grid nor target tensors.
C6_FailFast ==
    /\ (call.op = "gen_rf_anchors" /\ (MalformedHead \/ MalformedMap)) => ~ret.ok
    /\ (call.op = "build_targets" /\
            (\/ MalformedHead
             \/ MalformedMap
             \/ \E k \in 1 .. Len(call.gt_boxes) : \E n \in 1 .. Len(call.gt_boxes[k]) :
                    MalformedBox(call.gt_boxes[k][n])))
            => pc # "done"

\* C7: with one box of size lower_scale - 1, no cell whose anchor center
\* lies inside the box gets t_objness_mask; each such cell gets ignore; the
\* cells outside the box stay background.
C7_ScaleGating ==
    (BuildTargetsDone /\ ValidGeometry
        /\ Len(call.gt_boxes) = 1 /\ Len(call.gt_boxes[1]) = 1
        /\ BoxSize(call.gt_boxes[1][1]) = Px(lower_scale - 1))
        => \A c \in DOMAIN t_cls[1] :
              IF Inside(AnchorCenter(c), call.gt_boxes[1][1])
              THEN ~t_objness_mask[1][c] /\ ignore[1][c]
              ELSE ~t_objness_mask[1][c] /\ ~ignore[1][c] /\ t_cls[1][c] = 0

\* C8: gen_rf_anchors with clip=True and rf_size > rf_stride >= 0 returns, at
\* every cell, x coordinates in [0, fmapw * rf_stride] and y coordinates in
\* [0, fmaph * rf_stride], and a coordinate the unclipped anchor already
\* has inside its bounds is returned unchanged.
C8_Clipped ==
    (GenReturned /\ call.clip /\ rf_size > rf_stride)
        => \A c \in DOMAIN ret.value : \A j \in 1 .. 4 :
            LET bound == IF j \in {1, 3} THEN Px(call.fmapw * rf_stride)
                         ELSE Px(call.fmaph * rf_stride)
                v == ret.value[c][j]
                u == UnclippedAnchor(c)[j]
            IN  /\ 0 <= v /\ v <= bound
                /\ (0 <= u /\ u <= bound) => v = u

C8_Witness ==
    /\ GenReturned /\ call.clip /\ rf_size > rf_stride /\ rf_stride > 0
    /\ call.fmaph >= 1 /\ call.fmapw >= 2
    /\ \E c \in DOMAIN ret.value :
            /\ ret.value[c][1] = 0 /\ UnclippedAnchor(c)[1] < 0
            /\ ret.value[c][3] = UnclippedAnchor(c)[3]
    /\ \E c \in DOMAIN ret.value :
            /\ ret.value[c][3] = Px(call.fmapw * rf_stride)
            /\ UnclippedAnchor(c)[3] > Px(call.fmapw * rf_stride)

\* C9 as claimed: when build_targets returns, every cell with t_reg_mask
\* false holds regs = (0, 0, 0, 0), in images with boxes too.
C9_UnmatchedRegsZero ==
    BuildTargetsDone
        => \A k \in DOMAIN t_regs : \A c \in DOMAIN t_regs[k] :
              ~t_reg_mask[k][c] => \A j \in 1 .. 4 : IsValue(t_regs[k][c][j], 0)

\* C9 amended: when build_targets returns, a cell with t_reg_mask false
\* holds (0, 0, 0, 0) in an image without boxes, and in an image with boxes
\* it holds (0 - cx, 0 - cy, 0 - cx, 0 - cy) / (rf_size * 0.5) for the
\* center (cx, cy) handed to the Matcher.
C9_UnmatchedRegs ==
    BuildTargetsDone
        => \A k \in DOMAIN t_regs : \A c \in DOMAIN t_regs[k] :
              ~t_reg_mask[k][c] =>
                IF Len(call.gt_boxes[k]) = 0
                THEN t_regs[k][c] = Zero4
                ELSE t_regs[k][c] =
                        <<<<0 - rf_centers[c][1], 4 * rf_size>>,
                          <<0 - rf_centers[c][2], 4 * rf_size>>,
                          <<0 - rf_centers[c][1], 4 * rf_size>>,
                          <<0 - rf_centers[c][2], 4 * rf_size>>>>

C9_Witness ==
    /\ BuildTargetsDone /\ ValidGeometry
    /\ \E k \in DOMAIN t_regs : \E c, d \in DOMAIN t_regs[k] :
            /\ Len(call.gt_boxes[k]) > 0
            /\ ~t_reg_mask[k][c] /\ ~IsValue(t_regs[k][c][1], 0)
            /\ t_reg_mask[k][d]
    /\ \E k \in DOMAIN t_regs : Len(call.gt_boxes[k]) = 0

\* what a listing written from records must parse to
ExpectedIds == [k \in 1 .. Len(listing.records) |-> NameLine(listing.records[k].name)]
ExpectedTargets ==
    [k \in 1 .. Len(listing.records) |->
        [j \in 1 .. Len(listing.records[k].boxes) |->
            LET b == listing.records[k].boxes[j]
            IN  <<b[1], b[2], b[1] + b[3], b[2] + b[4]>>]]
C10_ParsedListing ==
    /\ Len(ids) = Len(targets)
    /\ listing.written =>
        /\ ppc # "error"
        /\ ppc = "done" => ids = ExpectedIds /\ targets = ExpectedTargets

\* C10: parse_annotation_file ends (returns or raises) on every list of
\* lines; on a written WIDER FACE listing it never raises and returns ids
\* and targets of equal length, one per record, in order, target i holding
\* the boxes of record i as (x, y, x + w, y + h).
C10_Parse == [](C10_ParsedListing) /\ <>(ppc \in {"done", "error"})

C10_Witness ==
    /\ ppc = "done" /\ listing.written
    /\ Len(listing.records) = 2
    /\ Len(listing.records[1].boxes) = 0
    /\ Len(listing.records[2].boxes) = 2
    /\ Len(targets) = 2 /\ Len(targets[2]) = 2

=============================================================================
